---- MODULE Spec2Model ----
(***************************************************************************)
(* Model of examples/calculate_slip_angles.py (tinetti/slide-guide):       *)
(* SlipAngleCalculator (array decoding, bicycle-model slip angles,         *)
(* statistics) and the main() pipeline around it.                          *)
(*                                                                         *)
(* Numbers.  Python floats are modelled in fixed point with three decimal  *)
(* digits: the integer n stands for the real n / 1000 (20.0 m/s is 20000,  *)
(* 0.5 is 500, 1.215 m is 1215, one radian is 1000).  A value that is not  *)
(* a number is a tagged record (None, NaN, a raised exception).            *)
(*                                                                         *)
(* Text.  A Python str is a sequence of one-character strings.             *)
(***************************************************************************)
EXTENDS FiniteSets, Integers, Sequences, TLC

VARIABLES
    pc,            \* main(): position in the script; "idle" outside a run
    columns,       \* main(): df.columns of the loaded table
    df,            \* the DataFrame: a sequence of rows (records)
    calc,          \* the SlipAngleCalculator instance (geometry) or NoObject
    raised,        \* exception raised by the last call, or NoException
    stdout,        \* what the run has printed so far (sequence of events)
    report,        \* what print_statistics last printed
    velocity_str,  \* argument of the last parse_velocity_array call
    parsed,        \* result of the last parse_velocity_array call
    burst,         \* the readings velocity_str was encoded from (if any)
    args,          \* arguments of the last SlipAngleCalculator(...) call
    result,        \* return value of the last direct call of another method
    controller,    \* the OversteerController instance or NoObject
    pkl            \* what joblib has stored in oversteer_controller.pkl, or NoFile

vars == <<pc, columns, df, calc, raised, stdout, report, velocity_str, parsed,
          burst, args, result, controller, pkl>>

----------------------------------------------------------------------------
(* Bounds of the model                                                      *)

MaxLen   == 5   \* longest arbitrary cell text given to the decoder
MaxBurst == 3   \* most readings in one encoded burst
MaxRows  == 2   \* most rows in a loaded table

----------------------------------------------------------------------------
(* Fixed-point arithmetic                                                   *)

ONE == 10 * 10 * 10          \* the fixed-point representation of 1.0

Abs(a) == IF a < 0 THEN -a ELSE a

Sign(a) == IF a > 0 THEN 1 ELSE IF a < 0 THEN -1 ELSE 0

\* a / b rounded toward zero (b # 0)
Div(a, b) == Sign(a) * Sign(b) * (Abs(a) \div Abs(b))

\* fixed-point product and quotient
Mul(a, b) == Div(a * b, ONE)

Quot(a, b) == Div(a * ONE, b)

PI == 3142                   \* numpy.pi, in fixed point

HalfPI == 1571               \* numpy.pi / 2, in fixed point

\* arctan(q) for 0 <= q <= 1 (q in fixed point):
\* q * (pi/4 + 0.273 * (1 - q)), accurate to 0.004 rad
AtanUnit(q) == Div(q * (785 + Div(273 * (ONE - q), ONE)), ONE)

\* arctan2 with the origin taken for a point of the positive y axis
Arctan2OriginOnAxis(y, x) ==
    IF x = 0 THEN (IF y >= 0 THEN HalfPI ELSE -HalfPI)
    ELSE IF Abs(y) <= Abs(x)
         THEN LET a == AtanUnit(Quot(Abs(y), Abs(x)))
              IN  IF x > 0 THEN Sign(y) * a
                  ELSE IF y >= 0 THEN PI - a ELSE -(PI - a)
         ELSE LET a == AtanUnit(Quot(Abs(x), Abs(y)))
              IN  IF x >= 0 THEN Sign(y) * (HalfPI - a)
                  ELSE Sign(y) * (HalfPI + a)

\* numpy.arctan2(y, x): principal value in (-pi, pi], 0 at the origin
arctan2(y, x) ==
    IF x = 0 /\ y = 0 THEN 0
    ELSE IF Abs(y) <= Abs(x)
         THEN LET a == AtanUnit(Quot(Abs(y), Abs(x)))
              IN  IF x > 0 THEN Sign(y) * a
                  ELSE IF y >= 0 THEN PI - a ELSE -(PI - a)
         ELSE LET a == AtanUnit(Quot(Abs(x), Abs(y)))
              IN  IF x >= 0 THEN Sign(y) * (HalfPI - a)
                  ELSE Sign(y) * (HalfPI + a)

\* numpy.degrees(x) = x * 180 / pi
degrees(x) == Div(x * 180 * ONE, PI)

\* numpy.radians(x) = x * pi / 180 (not called by the program)
radians(x) == Div(x * PI, 180 * ONE)

----------------------------------------------------------------------------
(* Values that are not numbers                                              *)

None == [kind |-> "None"]

Float(v) == [kind |-> "float", val |-> v]

NaNCell == <<"NaN">>         \* a missing cell of the table (pandas NaN)

NoObject == [kind |-> "NoObject"]

NoFile == [kind |-> "NoFile"]

NoException == "none"

----------------------------------------------------------------------------
(* Text helpers: str.strip, str.replace, str.split, float()                 *)

Quote == "\""

Whitespace == {" "}

Digits == {"0", "1", "2", "3", "4", "5", "6", "7", "8", "9"}

DigitVal(c) ==
    CASE c = "0" -> 0 [] c = "1" -> 1 [] c = "2" -> 2 [] c = "3" -> 3
      [] c = "4" -> 4 [] c = "5" -> 5 [] c = "6" -> 6 [] c = "7" -> 7
      [] c = "8" -> 8 [] c = "9" -> 9

RECURSIVE LStrip(_, _)
LStrip(s, chars) ==
    IF s # <<>> /\ Head(s) \in chars THEN LStrip(Tail(s), chars) ELSE s

RECURSIVE RStrip(_, _)
RStrip(s, chars) ==
    IF s # <<>> /\ s[Len(s)] \in chars
    THEN RStrip(SubSeq(s, 1, Len(s) - 1), chars)
    ELSE s

\* s.strip(chars)
Strip(s, chars) == RStrip(LStrip(s, chars), chars)

\* s.replace(c, '')
RECURSIVE Remove(_, _)
Remove(s, c) ==
    IF s = <<>> THEN <<>>
    ELSE IF Head(s) = c THEN Remove(Tail(s), c)
    ELSE <<Head(s)>> \o Remove(Tail(s), c)

\* s.split(sep): always at least one (possibly empty) piece
RECURSIVE Split(_, _)
Split(s, sep) ==
    IF \A i \in 1..Len(s) : s[i] # sep THEN <<s>>
    ELSE LET i == CHOOSE k \in 1..Len(s) :
                      s[k] = sep /\ \A j \in 1..(k - 1) : s[j] # sep
         IN  <<SubSeq(s, 1, i - 1)>> \o Split(SubSeq(s, i + 1, Len(s)), sep)

\* value of a digit string read as an integer
RECURSIVE IntOf(_)
IntOf(ds) ==
    IF ds = <<>> THEN 0
    ELSE 10 * IntOf(SubSeq(ds, 1, Len(ds) - 1)) + DigitVal(ds[Len(ds)])

\* value of a digit string read as the decimals after the point,
\* in fixed point (digits beyond the third are below the resolution)
FracOf(ds) ==
    LET d(i) == IF i <= Len(ds) THEN DigitVal(ds[i]) ELSE 0
    IN  100 * d(1) + 10 * d(2) + d(3)

\* float(v) for text over digits, '.', sign, blanks and other characters:
\* blanks around the literal are ignored, then [sign] digits [. digits]
\* with at least one digit; anything else raises ValueError.
IsFloatLiteral(v) ==
    LET t    == Strip(v, Whitespace)
        u    == IF t # <<>> /\ Head(t) \in {"-", "+"} THEN Tail(t) ELSE t
        dots == {i \in 1..Len(u) : u[i] = "."}
    IN  /\ \A i \in 1..Len(u) : u[i] \in Digits \cup {"."}
        /\ Cardinality(dots) <= 1
        /\ \E i \in 1..Len(u) : u[i] \in Digits

float(v) ==
    LET t    == Strip(v, Whitespace)
        neg  == t # <<>> /\ Head(t) = "-"
        u    == IF t # <<>> /\ Head(t) \in {"-", "+"} THEN Tail(t) ELSE t
        dots == {i \in 1..Len(u) : u[i] = "."}
        p    == IF dots = {} THEN Len(u) + 1 ELSE CHOOSE i \in dots : TRUE
        mag  == ONE * IntOf(SubSeq(u, 1, p - 1)) + FracOf(SubSeq(u, p + 1, Len(u)))
    IN  IF neg THEN -mag ELSE mag

----------------------------------------------------------------------------
(* Array signal decoder: SlipAngleCalculator.parse_velocity_array           *)

Pending == [kind |-> "pending"]          \* no call has returned yet

NoArgs == [kind |-> "NoArgs"]            \* no constructor call yet

Printed(text) == [event |-> text]        \* one print(...) of the program

Raise(e) == [kind |-> "raise", exc |-> e]

Decoration == {"[", "]", Quote}

Separator == ";"

\* str(velocity_str).strip('[]"').replace('"', '').split(';')
Cleaned(s) == Split(Remove(Strip(s, Decoration), Quote), Separator)

\* the tokens the comprehension keeps: "for v in cleaned if v.strip()"
Kept(s) == SelectSeq(Cleaned(s), LAMBDA v : Strip(v, Whitespace) # <<>>)

\* values[0]: the oldest reading of the burst
OldestValue(values) == values[1]

\* values[-1]: the most recent reading of the burst
MostRecentValue(values) == values[Len(values)]

\* the body of the try block: float() raises ValueError on the first
\* token that is not a float literal
TryDecode(s) ==
    LET kept == Kept(s)
    IN  IF \E i \in 1..Len(kept) : ~IsFloatLiteral(kept[i])
        THEN Raise("ValueError")
        ELSE LET values == [i \in 1..Len(kept) |-> float(kept[i])]
             IN  IF values # <<>> THEN Float(MostRecentValue(values)) ELSE None

\* an except clause that lets every exception through
CatchesNothing(e) == FALSE

\* except (ValueError, IndexError)
Catches(e) == e \in {"ValueError", "IndexError"}

parse_velocity_array(s) ==
    IF s = NaNCell \/ s = <<>> THEN None
    ELSE LET r == TryDecode(s)
         IN  IF r.kind = "raise" /\ Catches(r.exc) THEN None ELSE r

----------------------------------------------------------------------------
(* The controller's decoder: OversteerController._parse_array               *)

\* values[0]: the first value of the array
FirstOfArray(values) == values[1]

\* values[-1]: "take last (most recent) value"
LastOfArray(values) == values[Len(values)]

\* the body of the try block of _parse_array: the same cleaning and
\* comprehension, then "values[-1] if values else 0.0"
TryParseArray(s) ==
    LET cleaned == Split(Remove(Strip(s, Decoration), Quote), Separator)
        kept    == SelectSeq(cleaned, LAMBDA v : Strip(v, Whitespace) # <<>>)
    IN  IF \E i \in 1..Len(kept) : ~IsFloatLiteral(kept[i])
        THEN Raise("ValueError")
        ELSE LET values == [i \in 1..Len(kept) |-> float(kept[i])]
             IN  IF values # <<>> THEN Float(LastOfArray(values)) ELSE Float(0)

\* _parse_array: 0.0 for a missing or empty cell, and a bare "except:" that
\* turns every exception of the try block into 0.0
parse_array(s) ==
    IF s = NaNCell \/ s = <<>> THEN Float(0)
    ELSE LET r == TryParseArray(s)
         IN  IF r.kind = "raise" THEN Float(0) ELSE r

----------------------------------------------------------------------------
(* Encoded array signals: the CSV format '[v1;v2;v3;v4;v5;v6]'              *)

Alphabet == {"[", "]", Quote, ";", "1", "2", " ", "x"}

\* every text of at most n characters over the alphabet
TextsUpTo(n) == UNION {[1..k -> Alphabet] : k \in 0..n}

\* float literals used as readings, with the value each one denotes
Literals == { <<"0">>, <<"1">>, <<"-", "2">>, <<".", "5">>, <<"2", "0">>, <<"1", ".", "5">> }

LiteralValue(l) ==
    CASE l = <<"0">>           -> 0
      [] l = <<"1">>           -> 1000
      [] l = <<"-", "2">>      -> -2000
      [] l = <<".", "5">>      -> 500
      [] l = <<"2", "0">>      -> 20000
      [] l = <<"1", ".", "5">> -> 1500

Styles == {"plain", "bare", "quoted", "quotedItems", "trailing", "spaced"}

RECURSIVE Join(_, _)
Join(items, sep) ==
    IF items = <<>> THEN <<>>
    ELSE IF Len(items) = 1 THEN items[1]
    ELSE items[1] \o sep \o Join(Tail(items), sep)

\* the text of a burst of readings in one of the styles the exporter
\* and spreadsheet tools produce
Encode(readings, style) ==
    CASE style = "plain"       -> <<"[">> \o Join(readings, <<";">>) \o <<"]">>
      [] style = "bare"        -> Join(readings, <<";">>)
      [] style = "quoted"      -> <<Quote, "[">> \o Join(readings, <<";">>) \o <<"]", Quote>>
      [] style = "quotedItems" ->
             <<"[">> \o Join([i \in 1..Len(readings) |->
                                 <<Quote>> \o readings[i] \o <<Quote>>], <<";">>)
                     \o <<"]">>
      [] style = "trailing"    -> <<"[">> \o Join(readings, <<";">>) \o <<";", "]">>
      [] style = "spaced"      -> <<"[">> \o Join(readings, <<";", " ">>) \o <<" ", ";", " ", "]">>

Bursts == UNION {[1..k -> Literals] : k \in 1..MaxBurst}

NoBurst == <<>>

----------------------------------------------------------------------------
(* Specification SpecParse: each of the two decoders called once on any     *)
(* cell                                                                     *)

Idle ==
    /\ pc = "idle"
    /\ columns = {}
    /\ df = <<>>
    /\ calc = NoObject
    /\ raised = NoException
    /\ stdout = <<>>
    /\ report = Pending
    /\ args = NoArgs
    /\ result = Pending
    /\ controller = NoObject
    /\ pkl = NoFile

InitParse ==
    /\ Idle
    /\ parsed = Pending
    /\ \/ /\ velocity_str \in TextsUpTo(MaxLen) \cup {NaNCell}
          /\ burst = NoBurst
       \/ /\ burst \in Bursts
          /\ \E style \in Styles : velocity_str = Encode(burst, style)

ParseVelocityArray ==
    /\ parsed = Pending
    /\ raised = NoException
    /\ LET r == parse_velocity_array(velocity_str)
       IN  IF r.kind = "raise"
           THEN raised' = r.exc /\ parsed' = parsed
           ELSE raised' = raised /\ parsed' = r
    /\ UNCHANGED <<pc, columns, df, calc, stdout, report, velocity_str, burst, args, result, controller, pkl>>

\* controller._parse_array(velocity_str)
ParseArray ==
    /\ result = Pending
    /\ raised = NoException
    /\ result' = parse_array(velocity_str)
    /\ UNCHANGED <<pc, columns, df, calc, raised, stdout, report, velocity_str, parsed, burst, args, controller, pkl>>

NextParse == ParseVelocityArray \/ ParseArray

SpecParse == InitParse /\ [][NextParse]_vars

\* the call has returned or raised
ParseDone == parsed # Pending \/ raised # NoException

\* C4: an encoded burst "[v1;...;vn]" of n >= 1 float readings, in any of
\* the styles (quotes, trailing separators, blanks), decodes to exactly vn,
\* the last reading.
C4_LastReading ==
    (ParseDone /\ burst # NoBurst) =>
        parsed = Float(LiteralValue(burst[Len(burst)]))

\* a burst whose last reading differs from its first has been decoded
C4_Witness ==
    /\ parsed # Pending
    /\ Len(burst) >= 2
    /\ LiteralValue(burst[1]) # LiteralValue(burst[Len(burst)])
    /\ parsed = Float(LiteralValue(burst[Len(burst)]))

\* the cell has a non-empty token that is not a float literal
HasBadToken(s) ==
    \E i \in 1..Len(Cleaned(s)) :
        /\ Strip(Cleaned(s)[i], Whitespace) # <<>>
        /\ ~IsFloatLiteral(Cleaned(s)[i])

OnlyDecoration(s) == \A i \in 1..Len(s) : s[i] \in Decoration \cup {Separator}

\* C5: parse_velocity_array never raises, and a missing cell, an empty
\* string, a string of only brackets/quotes/separators, or a string with a
\* non-empty token that is not a float decodes to None.
C5_NoValueNeverRaises ==
    /\ raised = NoException
    /\ (ParseDone /\ (\/ velocity_str = NaNCell
                      \/ OnlyDecoration(velocity_str)
                      \/ HasBadToken(velocity_str)))
           => parsed = None

\* a cell whose last token is a float but an earlier one is not was decoded
C5_Witness ==
    /\ parsed = None
    /\ velocity_str = <<"[", "x", ";", "1", "]">>

\* both decoders have returned for the same cell
BothDecoded == parsed # Pending /\ result # Pending

\* _parse_array is parse_velocity_array followed by the 0.0 default
DefaultedReading == Float(IF parsed = None THEN 0 ELSE parsed.val)

\* C20 as stated: the two decoders agree on every input, _parse_array(s)
\* equals parse_velocity_array(s) whenever the latter returns a value, and
\* it equals 0.0 exactly when the latter returns no value.
C20_ZeroExactlyWhenNoValue ==
    BothDecoded =>
        /\ result = DefaultedReading
        /\ (result = Float(0)) <=> (parsed = None)

\* C20: _parse_array(s) equals parse_velocity_array(s) whenever the latter
\* returns a value and equals 0.0 whenever it returns no value; a result
\* of 0.0 does not tell the two cases apart.
C20_ParseArrayIsDefaultedParse ==
    BothDecoded => result = DefaultedReading

\* both decoders have answered for a cell whose first token is a reading
\* and whose last is not a float: no value from one, 0.0 from the other
C20_Witness ==
    /\ velocity_str = <<"[", "1", ";", "x", "]">>
    /\ parsed = None
    /\ result = Float(0)

----------------------------------------------------------------------------
(* Vehicle geometry: SlipAngleCalculator.__init__                           *)

\* self.wheelbase_rear = wheelbase * cg_position_pct: the CG fraction
\* applied to the wrong axle
RearFromFront(wheelbase, cg_position_pct) == Mul(wheelbase, cg_position_pct)

\* self.wheelbase_front = wheelbase * cg_position_pct
WheelbaseFront(wheelbase, cg_position_pct) == Mul(wheelbase, cg_position_pct)

\* self.wheelbase_rear = wheelbase * (1 - cg_position_pct)
WheelbaseRear(wheelbase, cg_position_pct) == Mul(wheelbase, ONE - cg_position_pct)

\* the object __init__ leaves behind; it checks none of its arguments
SlipAngleCalculator(wheelbase, track_width, cg_position_pct, steering_ratio) ==
    [ kind            |-> "SlipAngleCalculator",
      wheelbase       |-> wheelbase,
      track_width     |-> track_width,
      wheelbase_front |-> WheelbaseFront(wheelbase, cg_position_pct),
      wheelbase_rear  |-> WheelbaseRear(wheelbase, cg_position_pct),
      steering_ratio  |-> steering_ratio ]

\* the defaults of __init__, which main() also passes explicitly
DefaultWheelbase == 2700

DefaultTrackWidth == 1600

DefaultCgPositionPct == 450

DefaultSteeringRatio == 12000

----------------------------------------------------------------------------
(* Slip angles: calc_front_slip, calc_rear_slip, calculate_slip_angles      *)

LowSpeedThreshold == 500     \* np.abs(vx) > 0.5

\* np.abs(vx) >= 0.5: the boundary sample let through
MaskInclusive(vx) == Abs(vx) >= LowSpeedThreshold

\* valid_mask = np.abs(vx) > 0.5, for one sample
valid_mask(vx) == Abs(vx) > LowSpeedThreshold

\* the masked expression with the body slip angle added, not subtracted
FrontSlipPlusBeta(steering_angle, beta, yaw_rate, wheelbase_front, vx) ==
    steering_angle + beta - Quot(Mul(yaw_rate, wheelbase_front), vx)

\* steering_angle - beta - (yaw_rate * self.wheelbase_front / vx)
FrontSlip(steering_angle, beta, yaw_rate, wheelbase_front, vx) ==
    steering_angle - beta - Quot(Mul(yaw_rate, wheelbase_front), vx)

\* calc_front_slip: all four arguments are arrays of the same length
calc_front_slip(self, vx, vy, yaw_rate, steering_angle) ==
    LET beta == [i \in 1..Len(vx) |-> arctan2(vy[i], vx[i])]
    IN  [i \in 1..Len(vx) |->
            IF valid_mask(vx[i])
            THEN FrontSlip(steering_angle[i], beta[i], yaw_rate[i],
                           self.wheelbase_front, vx[i])
            ELSE 0]

\* np.arctan2(vy_rear, vx): the minus sign left out
RearSlipUnsigned(vy_rear, vx) == arctan2(vy_rear, vx)

\* -np.arctan2(vy_rear, vx)
RearSlip(vy_rear, vx) == -arctan2(vy_rear, vx)

\* calc_rear_slip
calc_rear_slip(self, vx, vy, yaw_rate) ==
    LET vy_rear == [i \in 1..Len(vx) |-> vy[i] - Mul(yaw_rate[i], self.wheelbase_rear)]
    IN  [i \in 1..Len(vx) |->
            IF valid_mask(vx[i]) THEN RearSlip(vy_rear[i], vx[i]) ELSE 0]

\* df[col]: one column of the table as an array
Column(table, col) == [i \in 1..Len(table) |-> table[i][col]]

\* series.apply(self.parse_velocity_array)
ApplyParse(series) == [i \in 1..Len(series) |-> parse_velocity_array(series[i])]

\* series.ffill().fillna(0): a missing value takes the previous sample's
RECURSIVE ffill(_)
ffill(series) ==
    IF series = <<>> THEN <<>>
    ELSE LET init == ffill(SubSeq(series, 1, Len(series) - 1))
             last == series[Len(series)]
         IN  Append(init, IF last.kind = "float" THEN last.val
                          ELSE IF init = <<>> THEN 0 ELSE init[Len(init)])

\* series.fillna(0): None and NaN become 0, every other value is kept
fillna(series) ==
    [i \in 1..Len(series) |-> IF series[i].kind = "float" THEN series[i].val ELSE 0]

DerivedColumns ==
    {"vx", "vy", "yaw_rate", "steering_angle", "body_slip_angle",
     "slip_angle_front", "slip_angle_rear", "slip_angle_front_deg",
     "slip_angle_rear_deg", "body_slip_angle_deg", "balance"}

\* rear minus front
BalanceReversed(front_deg, rear_deg) == rear_deg - front_deg

\* df['slip_angle_front_deg'] - df['slip_angle_rear_deg']
Balance(front_deg, rear_deg) == front_deg - rear_deg

\* the road-wheel angle stored over SteeringWheelAngle as well
AssignOverSteering(row, derived) ==
    derived @@ [row EXCEPT !["SteeringWheelAngle"] = derived.steering_angle]

\* df[name] = ... for every derived column: a column of that name is
\* added or overwritten, every other column is kept
AssignColumns(row, derived) == derived @@ row

\* the assignments of lines 74-104, given the decoded and defaulted columns
DeriveColumns(table, vx, vy, yaw, steer, body, front, rear) ==
    [i \in 1..Len(table) |-> AssignColumns(table[i],
            [ vx                   |-> vx[i],
              vy                   |-> vy[i],
              yaw_rate             |-> yaw[i],
              steering_angle       |-> steer[i],
              body_slip_angle      |-> body[i],
              slip_angle_front     |-> front[i],
              slip_angle_rear      |-> rear[i],
              slip_angle_front_deg |-> degrees(front[i]),
              slip_angle_rear_deg  |-> degrees(rear[i]),
              body_slip_angle_deg  |-> degrees(body[i]),
              balance              |-> Balance(degrees(front[i]), degrees(rear[i])) ])]

\* the three angles, given the decoded and defaulted columns
SlipColumns(self, table, vx, vy, yaw, steer) ==
    DeriveColumns(table, vx, vy, yaw, steer,
                  [i \in 1..Len(table) |-> arctan2(vy[i], vx[i])],
                  calc_front_slip(self, vx, vy, yaw, steer),
                  calc_rear_slip(self, vx, vy, yaw))

\* calculate_slip_angles: adds (or overwrites) the derived columns in place
calculate_slip_angles(self, table) ==
    SlipColumns(self, table,
                fillna(ApplyParse(Column(table, "VelocityX"))),
                fillna(ApplyParse(Column(table, "VelocityY"))),
                fillna(ApplyParse(Column(table, "YawRate"))),
                [i \in 1..Len(table) |->
                    Quot(table[i]["SteeringWheelAngle"], self.steering_ratio)])
----------------------------------------------------------------------------
(* Specification SpecGeom: one SlipAngleCalculator(...) call                *)

WheelbaseArgs == {2700, 3600, 1000, 0, -1000}

TrackWidthArgs == {1600, 2500, 0, -1600}

CgPositionArgs == {450, 500, 1200, 1000, 0, -100}

SteeringRatioArgs == {12000, 500, 0, -12000}

InitGeom ==
    /\ Idle
    /\ velocity_str = NaNCell
    /\ parsed = Pending
    /\ burst = NoBurst

\* SlipAngleCalculator(wheelbase, track_width, cg_position_pct, steering_ratio)
Construct ==
    /\ calc = NoObject
    /\ raised = NoException
    /\ \E wheelbase \in WheelbaseArgs, track_width \in TrackWidthArgs,
          cg_position_pct \in CgPositionArgs, steering_ratio \in SteeringRatioArgs :
          /\ args' = [ wheelbase       |-> wheelbase,
                       track_width     |-> track_width,
                       cg_position_pct |-> cg_position_pct,
                       steering_ratio  |-> steering_ratio ]
          /\ calc' = SlipAngleCalculator(wheelbase, track_width,
                                         cg_position_pct, steering_ratio)
          /\ stdout' = Append(stdout, Printed("Vehicle parameters"))
    /\ UNCHANGED <<pc, columns, df, raised, report, velocity_str, parsed, burst, result, controller, pkl>>

NextGeom == Construct

SpecGeom == InitGeom /\ [][NextGeom]_vars

\* arguments the geometry contract accepts
ValidGeometry(a) ==
    /\ a.wheelbase > 0
    /\ a.track_width > 0
    /\ a.steering_ratio > 0
    /\ a.cg_position_pct > 0 /\ a.cg_position_pct < ONE

\* C3: a constructor call with a non-positive wheelbase, track width or
\* steering ratio, or a CG fraction outside (0,1), fails with
\* ConfigurationError and leaves no calculator; any other call succeeds.
C3_RejectsInvalidGeometry ==
    args # NoArgs =>
        IF ValidGeometry(args)
        THEN calc # NoObject /\ raised = NoException
        ELSE calc = NoObject /\ raised = "ConfigurationError"

\* C15: after construction with a CG fraction in (0,1) and any wheelbase,
\* wheelbase_front = wheelbase * cgFraction,
\* wheelbase_rear = wheelbase * (1 - cgFraction), and the two add up to
\* wheelbase; for wheelbase 2.7 and fraction 0.45 they are 1.215 and 1.485.
C15_WheelbaseSplit ==
    (calc # NoObject /\ args.cg_position_pct > 0 /\ args.cg_position_pct < 1000) =>
        /\ 1000 * calc.wheelbase_front = args.wheelbase * args.cg_position_pct
        /\ 1000 * calc.wheelbase_rear = args.wheelbase * (1000 - args.cg_position_pct)
        /\ calc.wheelbase_front + calc.wheelbase_rear = args.wheelbase
        /\ calc.wheelbase = args.wheelbase
        /\ (args.wheelbase = 2700 /\ args.cg_position_pct = 450) =>
               (calc.wheelbase_front = 1215 /\ calc.wheelbase_rear = 1485)

\* the calculator for wheelbase 2.7 and CG fraction 0.45 was constructed
C15_Witness ==
    /\ calc # NoObject
    /\ args.wheelbase = 2700 /\ args.cg_position_pct = 450
    /\ calc.wheelbase_front = 1215 /\ calc.wheelbase_rear = 1485

----------------------------------------------------------------------------
(* Statistics: SlipAngleCalculator.print_statistics                         *)

MovingSpeed == 5000          \* df['Speed'] > 5

\* an exact quotient num / den, den > 0 (a float result of a division,
\* read as the real number it stands for)
Rat(num, den) == [num |-> num, den |-> den]

RatOfInt(k) == Rat(k, 1)

RatSub(a, b) == Rat(a.num * b.den - b.num * a.den, a.den * b.den)

RatEq(a, b) == a.num * b.den = b.num * a.den

RatLe(a, b) == a.num * b.den <= b.num * a.den

RECURSIVE Sum(_)
Sum(xs) == IF xs = <<>> THEN 0 ELSE Head(xs) + Sum(Tail(xs))

RECURSIVE Insert(_, _)
Insert(x, sorted) ==
    IF sorted = <<>> THEN <<x>>
    ELSE IF x <= Head(sorted) THEN <<x>> \o sorted
    ELSE <<Head(sorted)>> \o Insert(x, Tail(sorted))

RECURSIVE Sorted(_)
Sorted(xs) == IF xs = <<>> THEN <<>> ELSE Insert(Head(xs), Sorted(Tail(xs)))

RECURSIVE SqrtBetween(_, _, _)
SqrtBetween(v, lo, hi) ==
    IF lo >= hi THEN lo
    ELSE LET mid == (lo + hi + 1) \div 2
         IN  IF mid * mid <= v THEN SqrtBetween(v, mid, hi)
             ELSE SqrtBetween(v, lo, mid - 1)

\* floor of the square root of v, 0 <= v < 2^30
ISqrt(v) == SqrtBetween(v, 0, 32767)

NaN == [kind |-> "nan"]

\* Series.mean()
Mean(xs) == Rat(Sum(xs), Len(xs))

\* Series.std(): sample standard deviation (ddof = 1), NaN for one sample.
\* Computed in hundredths of a degree, the resolution of the printed value.
Std(xs) ==
    IF Len(xs) < 2 THEN NaN
    ELSE LET c   == [i \in 1..Len(xs) |-> Div(xs[i], 10)]
             m   == Div(Sum(c), Len(c))
             dev == [i \in 1..Len(c) |-> (c[i] - m) * (c[i] - m)]
         IN  Float(10 * ISqrt(Sum(dev) \div (Len(xs) - 1)))

\* Series.quantile(0.95): linear interpolation between order statistics
Quantile95(xs) ==
    LET sorted == Sorted(xs)
        pos    == 950 * (Len(xs) - 1)
        lo     == (pos \div ONE) + 1
        frac   == pos % ONE
    IN  IF lo >= Len(xs) THEN sorted[Len(xs)]
        ELSE sorted[lo] + Mul(sorted[lo + 1] - sorted[lo], frac)

AbsAll(xs) == [i \in 1..Len(xs) |-> Abs(xs[i])]

\* the six rows of the metrics table for one column
Metrics(xs) ==
    [ mean    |-> Mean(xs),
      std     |-> Std(xs),
      max_abs |-> Sorted(AbsAll(xs))[Len(xs)],
      p95_abs |-> Quantile95(AbsAll(xs)),
      max     |-> Sorted(xs)[Len(xs)],
      min     |-> Sorted(xs)[1] ]

BalanceThreshold == 500      \* balance > 0.5 / balance < -0.5

\* df['Speed'] >= 5: the boundary sample counted as moving
IsMovingInclusive(row) == row["Speed"] >= MovingSpeed

\* df['Speed'] > 5
IsMoving(row) == row["Speed"] > MovingSpeed

\* balance >= 0.5: the boundary sample counted as understeer
IsUndersteerInclusive(balance) == balance >= BalanceThreshold

\* balance > 0.5
IsUndersteer(balance) == balance > BalanceThreshold

\* balance < -0.5
IsOversteer(balance) == balance < -BalanceThreshold

\* count / len(df_moving) * 100
Percent(count, n) == Rat(count * 100, n)

\* the label chosen from the median sample instead of the mean
LabelOfMedian(balances) ==
    LET mid == Sorted(balances)[(Len(balances) + 1) \div 2]
    IN  IF mid > 0 THEN "UNDERSTEER" ELSE IF mid < 0 THEN "OVERSTEER" ELSE "NEUTRAL"

\* 'UNDERSTEER' if balance_mean > 0 else 'OVERSTEER' if balance_mean < 0
\* else 'NEUTRAL', with balance_mean = df_moving['balance'].mean()
Label(balances) ==
    LET balance_mean == Mean(balances)
    IN  IF balance_mean.num > 0 THEN "UNDERSTEER"
        ELSE IF balance_mean.num < 0 THEN "OVERSTEER"
        ELSE "NEUTRAL"

NoData == [kind |-> "NoData"]    \* "No data with speed > 5 m/s"

\* what print_statistics prints for a table with the derived columns
print_statistics(table) ==
    LET df_moving == SelectSeq(table, IsMoving)
        n         == Len(df_moving)
        balances  == Column(df_moving, "balance")
        u         == Percent(Len(SelectSeq(balances, IsUndersteer)), n)
        o         == Percent(Len(SelectSeq(balances, IsOversteer)), n)
    IN  IF n = 0 THEN NoData
        ELSE [ kind           |-> "statistics",
               samples        |-> df_moving,
               front          |-> Metrics(Column(df_moving, "slip_angle_front_deg")),
               rear           |-> Metrics(Column(df_moving, "slip_angle_rear_deg")),
               balance_mean   |-> Mean(balances),
               understeer_pct |-> u,
               oversteer_pct  |-> o,
               neutral_pct    |-> RatSub(RatSub(RatOfInt(100), u), o),
               label          |-> Label(balances) ]

----------------------------------------------------------------------------
(* Specification SpecStats: one print_statistics call on any table that     *)
(* has the derived columns                                                  *)

MaxStatRows == 3   \* most rows of a table given to print_statistics directly

StatSpeeds == {5000, 6000}

StatFronts == {-500, 0, 500, 2000}

StatRears == {0, 1000}

StatRows ==
    { [ Speed                |-> s,
        slip_angle_front_deg |-> f,
        slip_angle_rear_deg  |-> r,
        balance              |-> f - r ] :
      s \in StatSpeeds, f \in StatFronts, r \in StatRears }

InitStats ==
    /\ pc = "idle"
    /\ columns = {"Speed", "slip_angle_front_deg", "slip_angle_rear_deg", "balance"}
    /\ df \in UNION {[1..k -> StatRows] : k \in 0..MaxStatRows}
    /\ calc = SlipAngleCalculator(DefaultWheelbase, DefaultTrackWidth,
                                  DefaultCgPositionPct, DefaultSteeringRatio)
    /\ raised = NoException
    /\ stdout = <<>>
    /\ report = Pending
    /\ args = NoArgs
    /\ result = Pending
    /\ controller = NoObject
    /\ pkl = NoFile
    /\ velocity_str = NaNCell
    /\ parsed = Pending
    /\ burst = NoBurst

\* the print(...) that opens what print_statistics writes
StatisticsBanner(r) ==
    IF r = NoData THEN Printed("No data with speed > 5 m/s")
    ELSE Printed("SLIP ANGLE STATISTICS (Speed > 5 m/s)")

\* calc.print_statistics(df)
PrintStatistics ==
    /\ pc = "idle"
    /\ report = Pending
    /\ report' = print_statistics(df)
    /\ stdout' = Append(stdout, StatisticsBanner(report'))
    /\ UNCHANGED <<pc, columns, df, calc, raised, velocity_str, parsed, burst, args, result, controller, pkl>>

NextStats == PrintStatistics

SpecStats == InitStats /\ [][NextStats]_vars

----------------------------------------------------------------------------
(* Specification Spec: one run of main()                                    *)

\* required_cols without its last entry
RequiredWithoutSpeed == <<"VelocityX", "VelocityY", "YawRate", "SteeringWheelAngle">>

\* required_cols
required_cols == <<"VelocityX", "VelocityY", "YawRate", "SteeringWheelAngle", "Speed">>

\* [col for col in required_cols if col not in df.columns]
Missing(cols) == SelectSeq(required_cols, LAMBDA col : col \notin cols)

Range(f) == {f[i] : i \in DOMAIN f}

\* cells of the array-valued columns that loaded tables draw from
VelocityXCells ==
    { NaNCell,
      <<"[", "0", ".", "5", "]">>,
      <<"[", "-", "0", ".", "5", "]">>,
      <<"[", "1", ";", "2", "0", "]">> }

VelocityYCells == { <<"[", "x", "]">>, <<"[", "1", "]">> }

YawRateCells == { <<>>, <<"[", "0", ".", "1", "]">> }

SteeringSamples == {12000}

SpeedSamples == {5000, 20000}

Rows ==
    { [ VelocityX          |-> x,
        VelocityY          |-> y,
        YawRate            |-> w,
        SteeringWheelAngle |-> a,
        Speed              |-> v ] :
      x \in VelocityXCells, y \in VelocityYCells, w \in YawRateCells,
      a \in SteeringSamples, v \in SpeedSamples }

Tables == UNION {[1..k -> Rows] : k \in 0..MaxRows}

\* one row of a table that lacks some columns
PartialRow(cols) ==
    [c \in cols |->
        CASE c = "VelocityX"          -> <<"[", "1", ";", "2", "0", "]">>
          [] c = "VelocityY"          -> <<"[", "1", "]">>
          [] c = "YawRate"            -> <<"[", "0", ".", "1", "]">>
          [] c = "SteeringWheelAngle" -> <<"1", "2", ".", "0">>
          [] c = "Speed"              -> <<"2", "0", ".", "0">>]

Init ==
    /\ pc = "start"
    /\ columns = {}
    /\ df = <<>>
    /\ calc = NoObject
    /\ raised = NoException
    /\ stdout = <<>>
    /\ report = Pending
    /\ args = NoArgs
    /\ result = Pending
    /\ controller = NoObject
    /\ pkl = NoFile
    /\ velocity_str = NaNCell
    /\ parsed = Pending
    /\ burst = NoBurst

\* len(sys.argv) < 2
MainUsage ==
    /\ pc = "start"
    /\ stdout' = Append(stdout, Printed("Usage"))
    /\ pc' = "exit1"
    /\ UNCHANGED <<columns, df, calc, raised, report, velocity_str, parsed, burst, args, result, controller, pkl>>

\* pd.read_csv raises FileNotFoundError
MainFileNotFound ==
    /\ pc = "start"
    /\ stdout' = Append(stdout, Printed("Error: File not found"))
    /\ pc' = "exit1"
    /\ UNCHANGED <<columns, df, calc, raised, report, velocity_str, parsed, burst, args, result, controller, pkl>>

\* df = pd.read_csv(csv_path): any table, with all or only some of the
\* required columns
MainLoad ==
    /\ pc = "start"
    /\ \/ /\ columns' = Range(required_cols)
          /\ df' \in Tables
       \/ \E cols \in (SUBSET Range(required_cols)) \ {Range(required_cols)} :
             /\ columns' = cols
             /\ df' \in {<<>>, <<PartialRow(cols)>>}
    /\ stdout' = Append(stdout, Printed("Loaded samples"))
    /\ pc' = "check"
    /\ UNCHANGED <<calc, raised, report, velocity_str, parsed, burst, args, result, controller, pkl>>

\* the required-columns check
MainCheckColumns ==
    /\ pc = "check"
    /\ LET missing == Missing(columns)
       IN  IF missing # <<>>
           THEN /\ stdout' = Append(stdout,
                        [event |-> "Error: Missing required columns", missing |-> missing])
                /\ pc' = "exit1"
           ELSE /\ stdout' = stdout
                /\ pc' = "construct"
    /\ UNCHANGED <<columns, df, calc, raised, report, velocity_str, parsed, burst, args, result, controller, pkl>>

\* calc = SlipAngleCalculator(wheelbase=2.7, track_width=1.6,
\*                            cg_position_pct=0.45, steering_ratio=12.0)
MainConstruct ==
    /\ pc = "construct"
    /\ args' = [ wheelbase       |-> DefaultWheelbase,
                 track_width     |-> DefaultTrackWidth,
                 cg_position_pct |-> DefaultCgPositionPct,
                 steering_ratio  |-> DefaultSteeringRatio ]
    /\ calc' = SlipAngleCalculator(DefaultWheelbase, DefaultTrackWidth,
                                   DefaultCgPositionPct, DefaultSteeringRatio)
    /\ stdout' = Append(stdout, Printed("Vehicle parameters"))
    /\ pc' = "calculate"
    /\ UNCHANGED <<columns, df, raised, report, velocity_str, parsed, burst, result, controller, pkl>>

\* df = calc.calculate_slip_angles(df)
MainCalculate ==
    /\ pc = "calculate"
    /\ df' = calculate_slip_angles(calc, df)
    /\ columns' = columns \cup DerivedColumns
    /\ stdout' = Append(stdout, Printed("Calculated slip angles"))
    /\ pc' = "statistics"
    /\ UNCHANGED <<calc, raised, report, velocity_str, parsed, burst, args, result, controller, pkl>>

\* calc.print_statistics(df)
MainStatistics ==
    /\ pc = "statistics"
    /\ report' = print_statistics(df)
    /\ stdout' = Append(stdout, StatisticsBanner(report'))
    /\ pc' = "plot"
    /\ UNCHANGED <<columns, df, calc, raised, velocity_str, parsed, burst, args, result, controller, pkl>>

\* calc.plot_slip_angles(df): the figure itself is not modelled
MainPlot ==
    /\ pc = "plot"
    /\ stdout' = Append(stdout,
                        IF SelectSeq(df, IsMoving) = <<>>
                        THEN Printed("Warning: No data with speed > 5 m/s")
                        ELSE Printed("Saved plots"))
    /\ pc' = "export"
    /\ UNCHANGED <<columns, df, calc, raised, report, velocity_str, parsed, burst, args, result, controller, pkl>>

\* df.to_csv(output_path, index=False) and the closing prints
MainExport ==
    /\ pc = "export"
    /\ stdout' = Append(stdout, Printed("Exported data with slip angles"))
    /\ pc' = "done"
    /\ UNCHANGED <<columns, df, calc, raised, report, velocity_str, parsed, burst, args, result, controller, pkl>>

Next ==
    \/ MainUsage
    \/ MainFileNotFound
    \/ MainLoad
    \/ MainCheckColumns
    \/ MainConstruct
    \/ MainCalculate
    \/ MainStatistics
    \/ MainPlot
    \/ MainExport

Spec == Init /\ [][Next]_vars

----------------------------------------------------------------------------
(* Properties of a run of main() (specification Spec)                       *)

\* calculate_slip_angles has returned
Calculated == "vx" \in columns

C2_LowSpeedGuard ==
    Calculated =>
        \A i \in 1..Len(df) :
            (df[i].vx <= 500 /\ df[i].vx >= -500) =>
                /\ df[i].slip_angle_front = 0
                /\ df[i].slip_angle_rear = 0
                /\ df[i].slip_angle_front_deg = 0
                /\ df[i].slip_angle_rear_deg = 0

\* samples at vx = 0.5 and vx = -0.5 with lateral velocity, yaw and
\* steering have been computed
C2_Witness ==
    /\ Calculated
    /\ \E i, j \in 1..Len(df) :
          /\ df[i].vx = 500 /\ df[j].vx = -500
          /\ df[i].vy # 0 /\ df[i].yaw_rate # 0 /\ df[i].SteeringWheelAngle # 0
          /\ df[i].body_slip_angle # 0

\* the reading a sample cell of the loaded tables stands for; no entry
\* for a cell without a decodable reading
CellReading(cell) ==
    CASE cell = <<"[", "0", ".", "5", "]">>      -> Float(500)
      [] cell = <<"[", "-", "0", ".", "5", "]">> -> Float(-500)
      [] cell = <<"[", "1", ";", "2", "0", "]">> -> Float(20000)
      [] cell = <<"[", "1", "]">>                -> Float(1000)
      [] cell = <<"[", "0", ".", "1", "]">>      -> Float(100)
      [] OTHER                                   -> None

ReadingOrZero(cell) ==
    IF CellReading(cell) = None THEN 0 ELSE CellReading(cell).val

\* C6: in every sample vx, vy and yaw_rate are numbers: the sample's own
\* reading, or 0 where its cell has none; no sample takes a value from
\* another sample.
C6_MissingBecomesZero ==
    Calculated =>
        \A i \in 1..Len(df) :
            /\ df[i].vx \in Int /\ df[i].vy \in Int /\ df[i].yaw_rate \in Int
            /\ df[i].vx = ReadingOrZero(df[i].VelocityX)
            /\ df[i].vy = ReadingOrZero(df[i].VelocityY)
            /\ df[i].yaw_rate = ReadingOrZero(df[i].YawRate)

\* a sample without readings follows one that has all three
C6_Witness ==
    /\ Calculated
    /\ Len(df) = 2
    /\ df[1].vx = 20000 /\ df[1].vy = 1000 /\ df[1].yaw_rate = 100
    /\ df[2].VelocityX = NaNCell
    /\ df[2].VelocityY = <<"[", "x", "]">>
    /\ df[2].YawRate = <<>>
    /\ df[2].vx = 0 /\ df[2].vy = 0 /\ df[2].yaw_rate = 0

TheRequiredColumns ==
    {"VelocityX", "VelocityY", "YawRate", "SteeringWheelAngle", "Speed"}

LoadedTable == Printed("Loaded samples") \in Range(stdout)

ComputationEvents ==
    { Printed("Vehicle parameters"), Printed("Calculated slip angles"),
      Printed("SLIP ANGLE STATISTICS (Speed > 5 m/s)"),
      Printed("No data with speed > 5 m/s"),
      Printed("Warning: No data with speed > 5 m/s"),
      Printed("Saved plots"), Printed("Exported data with slip angles") }

\* C7: when a required column is absent from the loaded table the run
\* names exactly the absent required columns and exits with failure, and
\* nothing is constructed, calculated, summarised, plotted or exported;
\* when none is absent the run goes on to the computation.
C7_MissingColumnsStopTheRun ==
    LoadedTable =>
        IF TheRequiredColumns \ columns # {}
        THEN /\ pc \in {"check", "exit1"}
             /\ calc = NoObject /\ report = Pending
             /\ Range(stdout) \cap ComputationEvents = {}
             /\ pc = "exit1" =>
                   /\ stdout[Len(stdout)].event = "Error: Missing required columns"
                   /\ Range(stdout[Len(stdout)].missing) = TheRequiredColumns \ columns
                   /\ Len(stdout[Len(stdout)].missing)
                        = Cardinality(TheRequiredColumns \ columns)
        ELSE pc \in {"check", "construct", "calculate", "statistics",
                     "plot", "export", "done"}

\* a run has stopped on a table that lacks Speed and one more column
C7_Witness ==
    /\ pc = "exit1"
    /\ LoadedTable
    /\ "Speed" \notin columns
    /\ Cardinality(TheRequiredColumns \ columns) = 2
    /\ stdout[Len(stdout)].event = "Error: Missing required columns"

----------------------------------------------------------------------------
(* Properties of print_statistics (specification SpecStats)                 *)

\* the samples of the table faster than 5 m/s, in table order
FasterThanFive == SelectSeq(df, LAMBDA row : row.Speed > 5000)

\* C8: print_statistics computes over exactly the samples with Speed > 5
\* (a sample with Speed = 5 is left out); when there is none it prints
\* the no-data line, computes no statistic and raises nothing.
C8_StrictMovingFilter ==
    report # Pending =>
        /\ raised = NoException
        /\ IF FasterThanFive = <<>>
           THEN /\ report = NoData
                /\ stdout[Len(stdout)] = Printed("No data with speed > 5 m/s")
           ELSE /\ report.kind = "statistics"
                /\ report.samples = FasterThanFive

\* a table with only samples at Speed = 5 gave the no-data outcome
C8_Witness ==
    /\ report = NoData
    /\ Len(df) >= 2
    /\ \A i \in 1..Len(df) : df[i].Speed = 5000

\* the share, in percent, of the samples of xs that satisfy Test
Share(xs, Test(_)) == Rat(100 * Cardinality({i \in 1..Len(xs) : Test(xs[i])}), Len(xs))

\* C9: for a non-empty filtered set the three percentages sum to 100,
\* each lies in [0, 100], and they are the shares of the samples with
\* balance > 0.5 (understeer), balance < -0.5 (oversteer) and
\* -0.5 <= balance <= 0.5 (neutral; 0.5 and -0.5 themselves are neutral).
C9_BalanceBuckets ==
    (report # Pending /\ report # NoData) =>
        LET b == [i \in 1..Len(report.samples) |-> report.samples[i].balance]
            u == report.understeer_pct
            o == report.oversteer_pct
            n == report.neutral_pct
        IN  /\ u.den > 0 /\ o.den > 0 /\ n.den > 0
            /\ RatEq(u, Share(b, LAMBDA x : x > 500))
            /\ RatEq(o, Share(b, LAMBDA x : x < -500))
            /\ RatEq(n, Share(b, LAMBDA x : x >= -500 /\ x <= 500))
            /\ \A p \in {u, o, n} : RatLe(RatOfInt(0), p) /\ RatLe(p, RatOfInt(100))
            /\ (u.num * o.den * n.den + o.num * u.den * n.den + n.num * u.den * o.den)
                 = 100 * u.den * o.den * n.den

\* three moving samples, with balance 0.5, -0.5 and above 0.5, were
\* reported as two thirds neutral and one third understeer
C9_Witness ==
    /\ report # Pending /\ report # NoData
    /\ Len(report.samples) = 3
    /\ \E i, j, k \in 1..3 :
          /\ report.samples[i].balance = 500
          /\ report.samples[j].balance = -500
          /\ report.samples[k].balance > 500
    /\ RatEq(report.neutral_pct, Rat(200, 3))
    /\ RatEq(report.understeer_pct, Rat(100, 3))

\* the sum of the balances of the filtered samples: it has the sign of
\* their mean
BalanceSum == Sum([i \in 1..Len(report.samples) |-> report.samples[i].balance])

\* C10: the label is UNDERSTEER when the mean balance of the filtered set
\* is > 0, OVERSTEER when it is < 0 and NEUTRAL only when it is exactly 0.
C10_LabelFromMeanSign ==
    (report # Pending /\ report # NoData) =>
        /\ RatEq(report.balance_mean, Rat(BalanceSum, Len(report.samples)))
        /\ report.label \in {"UNDERSTEER", "OVERSTEER", "NEUTRAL"}
        /\ report.label = "UNDERSTEER" <=> BalanceSum > 0
        /\ report.label = "OVERSTEER" <=> BalanceSum < 0
        /\ report.label = "NEUTRAL" <=> BalanceSum = 0

\* a set whose balances are not all 0 but average to exactly 0 was
\* labelled NEUTRAL, although most of its samples oversteer
C10_Witness ==
    /\ report # Pending /\ report # NoData
    /\ report.label = "NEUTRAL"
    /\ Len(report.samples) = 3
    /\ Cardinality({i \in 1..3 : report.samples[i].balance < -500}) = 2

\* every row of one metrics table is a number
MetricsDefined(m) ==
    /\ m.mean.den > 0
    /\ m.std.kind = "float"
    /\ m.max_abs \in Int /\ m.p95_abs \in Int /\ m.max \in Int /\ m.min \in Int

\* C17: for every non-empty filtered set, a set of exactly one sample
\* included, every statistic print_statistics reports is a defined number:
\* the means and percentages divide by n >= 1 and the sample standard
\* deviation is a number.
C17_EveryStatisticDefined ==
    (report # Pending /\ report # NoData) =>
        /\ MetricsDefined(report.front)
        /\ MetricsDefined(report.rear)
        /\ report.balance_mean.den > 0
        /\ report.understeer_pct.den > 0
        /\ report.oversteer_pct.den > 0
        /\ report.neutral_pct.den > 0

----------------------------------------------------------------------------
(* Specification SpecApi: a client that holds one calculator and one table  *)
(* and calls the methods of the calculator in any order                     *)

MaxApiRows == 2   \* most rows of the client's table
MaxCalls   == 2   \* most calls that print (calculate_slip_angles, print_statistics)

\* the (VelocityX, VelocityY) cells of a sample: a missing, an empty and an
\* undecodable VelocityX, and readings forwards and backwards
ApiVelocityCells ==
    { <<NaNCell, <<"[", "x", "]">>>>,
      <<NaNCell, <<"[", "1", "]">>>>,
      <<<<>>, <<"[", "1", "]">>>>,
      <<<<"[", "x", "]">>, <<"[", "1", "]">>>>,
      <<<<"[", "2", "0", "]">>, <<"[", "1", "]">>>>,
      <<<<"[", "-", "2", "0", "]">>, <<"[", "x", "]">>>> }

ApiYawRateCells == { <<"[", "0", ".", "1", "]">> }

ApiSteeringSamples == {12000}

ApiSpeedSamples == {20000}

ApiRows ==
    { [ VelocityX          |-> xy[1],
        VelocityY          |-> xy[2],
        YawRate            |-> w,
        SteeringWheelAngle |-> a,
        Speed              |-> v ] :
      xy \in ApiVelocityCells, w \in ApiYawRateCells,
      a \in ApiSteeringSamples, v \in ApiSpeedSamples }

InitApi ==
    /\ pc = "idle"
    /\ columns = Range(required_cols)
    /\ df \in UNION {[1..k -> ApiRows] : k \in 0..MaxApiRows}
    /\ args = [ wheelbase       |-> DefaultWheelbase,
                track_width     |-> DefaultTrackWidth,
                cg_position_pct |-> DefaultCgPositionPct,
                steering_ratio  |-> DefaultSteeringRatio ]
    /\ calc = SlipAngleCalculator(DefaultWheelbase, DefaultTrackWidth,
                                  DefaultCgPositionPct, DefaultSteeringRatio)
    /\ raised = NoException
    /\ stdout = <<>>
    /\ report = Pending
    /\ velocity_str = NaNCell
    /\ parsed = Pending
    /\ burst = NoBurst
    /\ result = Pending
    /\ controller = NoObject
    /\ pkl = NoFile

\* df = calc.calculate_slip_angles(df), on a fresh table or on its own output
ApiCalculate ==
    /\ Len(stdout) < MaxCalls
    /\ df' = calculate_slip_angles(calc, df)
    /\ columns' = columns \cup DerivedColumns
    /\ stdout' = Append(stdout, Printed("Calculated slip angles"))
    /\ raised' = NoException
    /\ UNCHANGED <<pc, calc, report, velocity_str, parsed, burst, args, result, controller, pkl>>

\* calc.print_statistics(df); on a table without the derived columns the
\* first df_moving['slip_angle_front_deg'] raises KeyError
ApiPrintStatistics ==
    /\ Len(stdout) < MaxCalls
    /\ IF "balance" \in columns \/ SelectSeq(df, IsMoving) = <<>>
       THEN /\ report' = print_statistics(df)
            /\ stdout' = Append(stdout, StatisticsBanner(report'))
            /\ raised' = NoException
       ELSE /\ report' = report
            /\ stdout' = Append(stdout, Printed("SLIP ANGLE STATISTICS (Speed > 5 m/s)"))
            /\ raised' = "KeyError"
    /\ UNCHANGED <<pc, columns, df, calc, velocity_str, parsed, burst, args, result, controller, pkl>>

\* calc.parse_velocity_array(cell) on a VelocityX cell of the table
ApiParse ==
    /\ \E i \in 1..Len(df) :
          /\ velocity_str' = df[i].VelocityX
          /\ LET r == parse_velocity_array(df[i].VelocityX)
             IN  IF r.kind = "raise"
                 THEN raised' = r.exc /\ parsed' = parsed
                 ELSE raised' = NoException /\ parsed' = r
    /\ UNCHANGED <<pc, columns, df, calc, stdout, report, burst, args, result, controller, pkl>>

\* calc.calc_front_slip(df['vx'].values, df['vy'].values,
\*                      df['yaw_rate'].values, df['steering_angle'].values)
ApiFrontSlip ==
    /\ "vx" \in columns
    /\ result' = [ call  |-> "calc_front_slip",
                   value |-> calc_front_slip(calc, Column(df, "vx"), Column(df, "vy"),
                                             Column(df, "yaw_rate"),
                                             Column(df, "steering_angle")) ]
    /\ raised' = NoException
    /\ UNCHANGED <<pc, columns, df, calc, stdout, report, velocity_str, parsed, burst,
                   args, controller, pkl>>

\* calc.calc_rear_slip(df['vx'].values, df['vy'].values, df['yaw_rate'].values)
ApiRearSlip ==
    /\ "vx" \in columns
    /\ result' = [ call  |-> "calc_rear_slip",
                   value |-> calc_rear_slip(calc, Column(df, "vx"), Column(df, "vy"),
                                            Column(df, "yaw_rate")) ]
    /\ raised' = NoException
    /\ UNCHANGED <<pc, columns, df, calc, stdout, report, velocity_str, parsed, burst,
                   args, controller, pkl>>

NextApi ==
    \/ ApiCalculate
    \/ ApiPrintStatistics
    \/ ApiParse
    \/ ApiFrontSlip
    \/ ApiRearSlip

SpecApi == InitApi /\ [][NextApi]_vars

----------------------------------------------------------------------------
(* Properties of the calculator's methods (specification SpecApi)           *)

\* the raw input columns of one row
RawOf(row) == [c \in TheRequiredColumns |-> row[c]]

\* C11: for a sample with |vx| > 0.5 the rear slip angle is
\* -atan2(vy - yawRate * wheelbaseRear, vx), with
\* wheelbaseRear = wheelbase * (1 - cgFraction); its sign is the opposite
\* of the sign of that atan2.
C11_RearSlip ==
    Calculated =>
        /\ 1000 * calc.wheelbase_rear = args.wheelbase * (1000 - args.cg_position_pct)
        /\ \A i \in 1..Len(df) :
              (df[i].vx > 500 \/ df[i].vx < -500) =>
                  LET a == arctan2(df[i].vy - Mul(df[i].yaw_rate, 1485), df[i].vx)
                  IN  /\ df[i].slip_angle_rear = -a
                      /\ Sign(df[i].slip_angle_rear) = -Sign(a)

\* rear slip angles of both signs were computed, forwards and backwards
C11_Witness ==
    /\ Calculated
    /\ \E i, j \in 1..Len(df) :
          /\ df[i].vx = 20000 /\ df[i].vy = 1000 /\ df[i].slip_angle_rear < 0
          /\ df[j].vx = -20000 /\ df[j].vy = 0 /\ df[j].slip_angle_rear > 0

\* C12: in every sample balance = front slip angle in degrees - rear slip
\* angle in degrees of that sample, so balance > 0 exactly when the front
\* angle exceeds the rear one and balance < 0 exactly when it is below.
C12_BalanceIsFrontMinusRear ==
    Calculated =>
        \A i \in 1..Len(df) :
            /\ df[i].slip_angle_front_deg = degrees(df[i].slip_angle_front)
            /\ df[i].slip_angle_rear_deg = degrees(df[i].slip_angle_rear)
            /\ df[i].balance = df[i].slip_angle_front_deg - df[i].slip_angle_rear_deg
            /\ df[i].balance > 0 <=> df[i].slip_angle_front_deg > df[i].slip_angle_rear_deg
            /\ df[i].balance < 0 <=> df[i].slip_angle_front_deg < df[i].slip_angle_rear_deg

\* one table holds an understeering and an oversteering sample
C12_Witness ==
    /\ Calculated
    /\ \E i, j \in 1..Len(df) :
          /\ df[i].balance > 500
          /\ df[j].balance < -500

\* C13: a sample with vx = 0 and vy = 0 (read, or both defaulted) has body
\* slip angle 0, a number, whatever its yaw rate and steering angle are.
C13_BodySlipAtOrigin ==
    Calculated =>
        \A i \in 1..Len(df) :
            (df[i].vx = 0 /\ df[i].vy = 0) =>
                /\ df[i].body_slip_angle \in Int
                /\ df[i].body_slip_angle = 0
                /\ df[i].body_slip_angle_deg = 0

\* a sample without velocity readings, but with yaw and steering, was computed
C13_Witness ==
    /\ Calculated
    /\ \E i \in 1..Len(df) :
          /\ df[i].VelocityX = NaNCell /\ df[i].VelocityY = <<"[", "x", "]">>
          /\ df[i].yaw_rate = 100 /\ df[i].SteeringWheelAngle = 12000
          /\ df[i].body_slip_angle = 0

\* C14: after calculate_slip_angles every row is what the method yields
\* for that row alone (so the other rows, their order and their number do
\* not matter), and a further run on the result leaves the table as it is.
C14_PerSampleAndIdempotent ==
    [][/\ (df' # df) =>
             \A i \in 1..Len(df') :
                 df'[i] = calculate_slip_angles(calc, <<RawOf(df'[i])>>)[1]
       /\ ("vx" \in columns) => (df' = df)]_vars

\* calculate_slip_angles has run twice on a table of two different samples
C14_Witness ==
    /\ stdout = <<Printed("Calculated slip angles"), Printed("Calculated slip angles")>>
    /\ Len(df) = 2
    /\ df[1].vy = 1000 /\ df[2].vy = 0
    /\ df[1].vx = 20000 /\ df[2].vx = -20000

\* C16: no call changes the geometry, and no call changes the number of
\* rows or a value of VelocityX, VelocityY, YawRate, SteeringWheelAngle
\* or Speed.
C16_GeometryAndRawColumnsFixed ==
    [][/\ calc' = calc
       /\ Len(df') = Len(df)
       /\ \A i \in 1..Len(df) : RawOf(df'[i]) = RawOf(df[i])]_vars

\* the table was calculated and summarised, a cell was decoded and a slip
\* method was called directly, with the geometry as constructed
C16_Witness ==
    /\ Calculated
    /\ report.kind = "statistics"
    /\ parsed # Pending
    /\ result # Pending
    /\ Len(df) = 2
    /\ calc.wheelbase_front = 1215 /\ calc.wheelbase_rear = 1485
    /\ calc.steering_ratio = 12000 /\ calc.track_width = 1600

\* VelocityX cells without a reading: missing, empty, undecodable
NoReadingCells == { NaNCell, <<>>, <<"[", "x", "]">> }

\* the positions of samples whose VelocityX has no reading
WithoutVx(table) == {i \in 1..Len(table) : table[i].VelocityX \in NoReadingCells}

\* C18: a sample whose VelocityX is missing, empty or undecodable has front
\* slip, rear slip and balance exactly 0 whatever its other columns hold;
\* with Speed > 5 it is among the samples print_statistics reports on, in
\* the neutral bucket.
C18_MissingVxIsNeutral ==
    /\ Calculated =>
          \A i \in WithoutVx(df) :
              /\ df[i].vx = 0
              /\ df[i].slip_angle_front = 0 /\ df[i].slip_angle_rear = 0
              /\ df[i].slip_angle_front_deg = 0 /\ df[i].slip_angle_rear_deg = 0
              /\ df[i].balance = 0
    /\ (Calculated /\ report.kind = "statistics") =>
          /\ Cardinality(WithoutVx(report.samples))
               = Cardinality({i \in WithoutVx(df) : df[i].Speed > 5000})
          /\ RatLe(Rat(100 * Cardinality(WithoutVx(report.samples)), Len(report.samples)),
                   report.neutral_pct)

\* of two reported samples the one without VelocityX is the neutral half
C18_Witness ==
    /\ Calculated
    /\ report.kind = "statistics"
    /\ Len(report.samples) = 2
    /\ report.samples[1].vx = 20000
    /\ report.samples[2].VelocityX = <<"[", "x", "]">>
    /\ report.samples[2].VelocityY = <<"[", "1", "]">>
    /\ RatEq(report.neutral_pct, RatOfInt(50))

----------------------------------------------------------------------------
(* The oversteer controller: OversteerController.predict, save_model and    *)
(* load_model. The console output of the controller is left out of the      *)
(* state.                                                                   *)

\* a Python list
List(items) == [kind |-> "list", items |-> items]

DefaultTargetBalance == -2000   \* target_balance=-2.0

\* OversteerController(target_balance): the object __init__ leaves
OversteerController(target_balance) ==
    [ kind           |-> "OversteerController",
      target_balance |-> target_balance,
      models         |-> None,
      feature_cols   |-> None,
      target_cols    |-> List(<<"Throttle", "Brake", "SteeringWheelAngle">>) ]

\* the feature columns prepare_training_data selects, reduced to one
FeatureCols == <<"balance">>

\* np.clip on one element
Clip(x, lo, hi) == IF x < lo THEN lo ELSE IF x > hi THEN hi ELSE x

\* np.clip(xs, lo, hi)
clip(xs, lo, hi) == [i \in 1..Len(xs) |-> Clip(xs[i], lo, hi)]

\* state[self.feature_cols]
SelectColumns(state, cols) ==
    [i \in 1..Len(state) |-> [c \in Range(cols) |-> state[i][c]]]

\* model.predict(X) of a fitted regressor: a fitted tree ensemble is a
\* function of the feature values of each row
ModelPredict(model, X) == [i \in 1..Len(X) |-> model[X[i][FeatureCols[1]]]]

PedalThreshold == 100   \* > 0.1

\* a mask that selects no row
BothMaskOff(throttle, brake) == FALSE

\* (predictions['Throttle'] > 0.1) & (predictions['Brake'] > 0.1)
BothMask(throttle, brake) == throttle > PedalThreshold /\ brake > PedalThreshold

Predictions(rows) == [kind |-> "predictions", rows |-> rows]

\* controller.predict(state)
predict(ctl, state, cols) ==
    IF ctl.models = None THEN Raise("RuntimeError")
    ELSE IF ctl.feature_cols = None THEN Raise("KeyError")
    ELSE IF ~(Range(ctl.feature_cols.items) \subseteq cols) THEN Raise("KeyError")
    ELSE IF Len(ctl.models.items) < 3 THEN Raise("IndexError")
    ELSE LET X        == SelectColumns(state, ctl.feature_cols.items)
             throttle == clip(ModelPredict(ctl.models.items[1], X), 0, ONE)
             brake    == clip(ModelPredict(ctl.models.items[2], X), 0, ONE)
             steering == clip(ModelPredict(ctl.models.items[3], X), -ONE, ONE)
         IN  Predictions([i \in 1..Len(state) |->
                 [ Throttle           |-> IF BothMask(throttle[i], brake[i])
                                          THEN 0 ELSE throttle[i],
                   Brake              |-> brake[i],
                   SteeringWheelAngle |-> steering[i] ]])

\* the dictionary save_model hands to joblib.dump
Dumped(ctl) ==
    [ kind           |-> "pkl",
      models         |-> ctl.models,
      feature_cols   |-> ctl.feature_cols,
      target_balance |-> ctl.target_balance,
      target_cols    |-> ctl.target_cols ]

\* the controller after load_model has read data
Loaded(ctl, data) ==
    [ctl EXCEPT !.models         = data.models,
                !.feature_cols   = data.feature_cols,
                !.target_balance = data.target_balance,
                !.target_cols    = data.target_cols]

----------------------------------------------------------------------------
(* Specification SpecCtl: a client that holds one controller, trains it at  *)
(* most once (as main() does) and calls its methods in any order            *)

MaxStateRows == 2   \* most rows of the state table given to predict

\* the balance feature of a state row
BalanceSamples == {-2000, 1000}

\* raw outputs of the fitted throttle and brake regressors
PedalOutputs == {-200, 100, 500, 1500}

\* raw outputs of the fitted steering regressor
SteeringOutputs == {-1500, 300, 1500}

PedalRegressors == [BalanceSamples -> PedalOutputs]

SteeringRegressors == [BalanceSamples -> SteeringOutputs]

StateRows == { [balance |-> b] : b \in BalanceSamples }

\* a file written by an earlier session
StoredController ==
    [ kind           |-> "pkl",
      models         |-> List(<< [b \in BalanceSamples |-> 500],
                                 [b \in BalanceSamples |-> IF b < 0 THEN 1500 ELSE -200],
                                 [b \in BalanceSamples |-> 300] >>),
      feature_cols   |-> List(FeatureCols),
      target_balance |-> -3000,
      target_cols    |-> List(<<"Throttle", "Brake", "SteeringWheelAngle">>) ]

InitCtl ==
    /\ pc = "idle"
    /\ columns = {"balance"}
    /\ df \in UNION {[1..k -> StateRows] : k \in 1..MaxStateRows}
    /\ calc = NoObject
    /\ raised = NoException
    /\ stdout = <<>>
    /\ report = Pending
    /\ args = NoArgs
    /\ result = Pending
    /\ controller = OversteerController(DefaultTargetBalance)
    /\ pkl \in {NoFile, StoredController}
    /\ velocity_str = NaNCell
    /\ parsed = Pending
    /\ burst = NoBurst

\* controller.prepare_training_data(df): sets self.feature_cols
PrepareTrainingData ==
    /\ pc' = "prepare_training_data"
    /\ controller' = [controller EXCEPT !.feature_cols = List(FeatureCols)]
    /\ raised' = NoException
    /\ result' = Pending
    /\ UNCHANGED <<columns, df, calc, stdout, report, velocity_str, parsed, burst, args, pkl>>

\* controller.train(X, y, weights): self.models = [] and then one fitted
\* regressor per target; train_test_split raises ValueError on the first
\* target when X has too few samples
Train ==
    /\ controller.models = None
    /\ pc' = "train"
    /\ result' = Pending
    /\ \/ /\ controller' = [controller EXCEPT !.models = List(<<>>)]
          /\ raised' = "ValueError"
       \/ \E throttle \in PedalRegressors, brake \in PedalRegressors,
             steering \in SteeringRegressors :
             /\ controller' = [controller EXCEPT
                                  !.models = List(<<throttle, brake, steering>>)]
             /\ raised' = NoException
    /\ UNCHANGED <<columns, df, calc, stdout, report, velocity_str, parsed, burst, args, pkl>>

\* controller.predict(df)
Predict ==
    /\ pc' = "predict"
    /\ LET r == predict(controller, df, columns)
       IN  IF r.kind = "raise"
           THEN raised' = r.exc /\ result' = Pending
           ELSE raised' = NoException /\ result' = r
    /\ UNCHANGED <<columns, df, calc, stdout, report, velocity_str, parsed, burst, args, controller, pkl>>

\* controller.save_model()
SaveModel ==
    /\ pc' = "save_model"
    /\ result' = Pending
    /\ IF controller.models = None
       THEN raised' = "RuntimeError" /\ pkl' = pkl
       ELSE raised' = NoException /\ pkl' = Dumped(controller)
    /\ UNCHANGED <<columns, df, calc, stdout, report, velocity_str, parsed, burst, args, controller>>

\* controller.load_model()
LoadModel ==
    /\ pc' = "load_model"
    /\ result' = Pending
    /\ IF pkl = NoFile
       THEN raised' = "FileNotFoundError" /\ controller' = controller
       ELSE raised' = NoException /\ controller' = Loaded(controller, pkl)
    /\ UNCHANGED <<columns, df, calc, stdout, report, velocity_str, parsed, burst, args, pkl>>

NextCtl == PrepareTrainingData \/ Train \/ Predict \/ SaveModel \/ LoadModel

SpecCtl == InitCtl /\ [][NextCtl]_vars

\* the controller holds three fitted regressors and its feature columns
Ready(ctl) ==
    /\ ctl.models # None
    /\ ctl.feature_cols # None
    /\ Len(ctl.models.items) = 3

\* what regressor k of the controller answers for row i of the state table
RawOutput(k, i) == controller.models.items[k][df[i].balance]

====
